---- MODULE Spec2Model ----
(***************************************************************************)
(* arwoosa/header2post: a middleware that buffers the downstream handler's *)
(* response, reads a marker header from it, base64-decodes the value,      *)
(* POSTs it to a notification URL, removes the marker and flushes the      *)
(* buffered response to the real http.ResponseWriter.                      *)
(*                                                                         *)
(* Strings whose content the code inspects (header values, bodies) are     *)
(* sequences of one-character strings; header names are TLA+ strings.      *)
(* An http.Header is a function from canonical names to the sequence of    *)
(* values stored under the name (<<>> when the name is absent).            *)
(***************************************************************************)
EXTENDS Integers, Sequences, FiniteSets, TLC

(* ------------------------------ bounds --------------------------------- *)

\* Most Write calls the downstream handler makes in one request.
MaxWrites == 2

\* Most values the downstream handler stores under one response header name.
MaxHeaderVals == 2

(* ------------------------- program constants --------------------------- *)

StatusOK == 200

StatusAccepted == 202

StatusBadRequest == 400

StatusInternalServerError == 500

\* A nil error.
Nil == "nil"

\* A nil http.Handler.
NilHandler == [nil |-> TRUE]

(* ------------------------------ inputs --------------------------------- *)

\* Config.NotifyHeader as the host may supply it (not in canonical form).
NotifyHeaderNames == {"", "x-notify"}

\* Config.NotifyUrl: empty, a URL that parses, a URL that does not.
NotifyUrls == {"", "http://notify", "::bad"}

\* Config.ForwardHeaders of the forward-headers variant.
ForwardHeaderLists == {<<"X-Forward-A", "Content-Type">>}

\* Canonical header names the model follows.
HeaderKeys == {"X-Notify", "X-Forward-A", "Content-Type"}

\* Names under which the downstream handler touches the response headers.
RespNames == {"X-Notify", "x-notify", "X-Forward-A"}

\* Values the downstream handler gives the marker header: empty, "QUI="
\* followed by a line feed (decodes to "AB"), "Q-==" (a byte outside the
\* alphabet).
MarkerValues ==
    { <<>>,
      <<"Q", "U", "I", "=", "\n">>,
      <<"Q", "-", "=", "=">> }

\* Values the downstream handler gives any other response header.
OtherValues == { <<"r">> }

\* Values of request headers: padded with spaces, spaces only.
ReqValues == { <<" ", "a", " ">>, <<" ">> }

\* Status codes the downstream handler passes to WriteHeader.
Codes == {StatusOK, StatusBadRequest}

\* Chunks the downstream handler passes to Write.
Chunks == { <<"h">>, <<"w", "o">> }

\* Status codes the notification endpoint answers with.
RespCodes == {StatusAccepted, StatusOK, StatusBadRequest}

\* Body of a non-202 answer of the notification endpoint.
RespBody == <<"n", "o">>

(* --------------------------- net/http.Header --------------------------- *)

\* textproto.CanonicalMIMEHeaderKey on the names in use.
CanonicalMIMEHeaderKey(k) ==
    CASE k = "x-notify" -> "X-Notify"
      [] k = "x-forward-a" -> "X-Forward-A"
      [] k = "content-type" -> "Content-Type"
      [] OTHER -> k

EmptyHeader == [k \in HeaderKeys |-> <<>>]

\* A Get that returns the last value stored under the name.
HeaderGetLast(h, k) ==
    LET ck == CanonicalMIMEHeaderKey(k)
    IN  IF ck \in DOMAIN h /\ h[ck] # <<>> THEN h[ck][Len(h[ck])] ELSE <<>>

\* Header.Get: the first value stored under the canonical name, "" if none.
HeaderGet(h, k) ==
    LET ck == CanonicalMIMEHeaderKey(k)
    IN  IF ck \in DOMAIN h /\ h[ck] # <<>> THEN h[ck][1] ELSE <<>>

\* Header.Del: every value stored under the canonical name is removed.
HeaderDel(h, k) ==
    LET ck == CanonicalMIMEHeaderKey(k)
    IN  IF ck \in DOMAIN h THEN [h EXCEPT ![ck] = <<>>] ELSE h

\* Header.Add: the value is appended under the canonical name.
HeaderAdd(h, k, v) ==
    LET ck == CanonicalMIMEHeaderKey(k)
    IN  [h EXCEPT ![ck] = Append(@, v)]

\* Header.Set: the value replaces whatever the canonical name held.
HeaderSet(h, k, v) ==
    LET ck == CanonicalMIMEHeaderKey(k)
    IN  [h EXCEPT ![ck] = <<v>>]

(* ------------------------- strings.TrimSpace --------------------------- *)

Space == {" ", "\t", "\n", "\r"}

RECURSIVE TrimLeft(_)
TrimLeft(s) ==
    IF s # <<>> /\ s[1] \in Space THEN TrimLeft(Tail(s)) ELSE s

RECURSIVE TrimRight(_)
TrimRight(s) ==
    IF s # <<>> /\ s[Len(s)] \in Space
    THEN TrimRight(SubSeq(s, 1, Len(s) - 1))
    ELSE s

TrimSpace(s) == TrimRight(TrimLeft(s))

(* ------------------- base64.StdEncoding.DecodeString ------------------- *)

\* The standard alphabet of RFC 4648; the value of a character is its
\* position in it, counted from 0.
Alphabet ==
    << "A", "B", "C", "D", "E", "F", "G", "H", "I", "J", "K", "L", "M",
       "N", "O", "P", "Q", "R", "S", "T", "U", "V", "W", "X", "Y", "Z",
       "a", "b", "c", "d", "e", "f", "g", "h", "i", "j", "k", "l", "m",
       "n", "o", "p", "q", "r", "s", "t", "u", "v", "w", "x", "y", "z",
       "0", "1", "2", "3", "4", "5", "6", "7", "8", "9", "+", "/" >>

AlphabetSet == {Alphabet[i] : i \in 1..Len(Alphabet)}

InAlphabet(c) == c \in AlphabetSet

Sextet(c) == (CHOOSE i \in 1..Len(Alphabet) : Alphabet[i] = c) - 1

\* The decoder skips carriage returns and line feeds wherever they stand.
StripNewlines(s) == SelectSeq(s, LAMBDA c : c \notin {"\r", "\n"})

\* The 24 bits of one quantum; a padding character counts as zero bits.
QuantumBits(q) ==
    LET v(i) == IF q[i] = "=" THEN 0 ELSE Sextet(q[i])
    IN  v(1) * 262144 + v(2) * 4096 + v(3) * 64 + v(4)

QuantumBytes(q, n) ==
    LET bits == QuantumBits(q)
        all == << bits \div 65536, (bits \div 256) % 256, bits % 256 >>
    IN  SubSeq(all, 1, n)

\* Quantum by quantum: four alphabet characters give three bytes; a final
\* quantum may end in "=" (two bytes) or "==" (one byte); anything else,
\* a short quantum included, is a CorruptInputError.  The bytes decoded
\* before the error are returned with it.
RECURSIVE DecodeQuanta(_)
DecodeQuanta(t) ==
    IF t = <<>> THEN [data |-> <<>>, err |-> FALSE]
    ELSE IF Len(t) < 4 THEN [data |-> <<>>, err |-> TRUE]
    ELSE
      LET q == SubSeq(t, 1, 4)
          rest == SubSeq(t, 5, Len(t))
      IN  IF \A i \in 1..4 : InAlphabet(q[i])
          THEN LET r == DecodeQuanta(rest)
               IN  [data |-> QuantumBytes(q, 3) \o r.data, err |-> r.err]
          ELSE IF /\ InAlphabet(q[1]) /\ InAlphabet(q[2])
                  /\ q[3] = "=" /\ q[4] = "=" /\ rest = <<>>
          THEN [data |-> QuantumBytes(q, 1), err |-> FALSE]
          ELSE IF /\ InAlphabet(q[1]) /\ InAlphabet(q[2]) /\ InAlphabet(q[3])
                  /\ q[4] = "=" /\ rest = <<>>
          THEN [data |-> QuantumBytes(q, 2), err |-> FALSE]
          ELSE [data |-> <<>>, err |-> TRUE]

\* A decoder whose error is dropped.
DecodeStringLenient(s) ==
    [data |-> DecodeQuanta(StripNewlines(s)).data, err |-> FALSE]

DecodeString(s) == DecodeQuanta(StripNewlines(s))

(* -------------------------------- New ---------------------------------- *)

\* A New that checks the URL before the header name.
NewUrlFirst(config) ==
    IF config.NotifyUrl = ""
    THEN [handler |-> NilHandler, err |-> "notifyurl cannot be empty"]
    ELSE IF config.NotifyHeader = ""
    THEN [handler |-> NilHandler, err |-> "notifyheader cannot be empty"]
    ELSE [handler |-> [notifyHeader |-> config.NotifyHeader,
                       notifyUrl |-> config.NotifyUrl,
                       forwardHeaders |-> config.ForwardHeaders],
          err |-> Nil]

\* New: the two required fields are checked in this order; on success the
\* handler keeps the configuration.
New(config) ==
    IF config.NotifyHeader = ""
    THEN [handler |-> NilHandler, err |-> "notifyheader cannot be empty"]
    ELSE IF config.NotifyUrl = ""
    THEN [handler |-> NilHandler, err |-> "notifyurl cannot be empty"]
    ELSE [handler |-> [notifyHeader |-> config.NotifyHeader,
                       notifyUrl |-> config.NotifyUrl,
                       forwardHeaders |-> config.ForwardHeaders],
          err |-> Nil]

(* ----------------------- the real response sink ------------------------ *)

\* An http.ResponseWriter as httptest.ResponseRecorder and the server's
\* response behave: the first WriteHeader fixes the status code and the
\* headers sent with it, a Write before any WriteHeader sends 200 first.
NewSink ==
    [header |-> EmptyHeader, wroteHeader |-> FALSE, code |-> 0,
     sent |-> EmptyHeader, body |-> <<>>, calls |-> <<>>]

SinkWriteHeader(w, code) ==
    LET w1 == [w EXCEPT !.calls = Append(@, <<"WriteHeader", code>>)]
    IN  IF w.wroteHeader THEN w1
        ELSE [w1 EXCEPT !.wroteHeader = TRUE, !.code = code,
                        !.sent = w.header]

SinkWrite(w, b) ==
    LET w0 == [w EXCEPT !.calls = Append(@, <<"Write", b>>)]
        w1 == IF w0.wroteHeader THEN w0
              ELSE [w0 EXCEPT !.wroteHeader = TRUE, !.code = StatusOK,
                              !.sent = w.header]
    IN  [w1 EXCEPT !.body = @ \o b]

(* ----------------------- wrappedResponseWriter ------------------------- *)

\* newResponseWriter: an empty buffer and status 200.
NewResponseWriter == [buf |-> <<>>, code |-> StatusOK]

\* A Write that keeps only the last chunk.
WrapperWriteOverwrite(rwr, b) ==
    [rwr |-> [rwr EXCEPT !.buf = b], n |-> Len(b), err |-> Nil]

\* Write: bytes.Buffer.Write appends and returns (len(b), nil).
WrapperWrite(rwr, b) ==
    [rwr |-> [rwr EXCEPT !.buf = @ \o b], n |-> Len(b), err |-> Nil]

\* WriteHeader: the code is recorded, nothing is sent.
WrapperWriteHeader(rwr, code) == [rwr EXCEPT !.code = code]

\* Flush: WriteHeader(code) on the sink, then io.Copy of the buffer, which
\* drains it with one Write when it holds bytes and none when it is empty.
Flush(rwr, w) ==
    LET w1 == SinkWriteHeader(w, rwr.code)
        w2 == IF rwr.buf # <<>> THEN SinkWrite(w1, rwr.buf) ELSE w1
    IN  [w |-> w2, rwr |-> [rwr EXCEPT !.buf = <<>>]]

\* A deferred function that flushes before it removes the marker header.
DeferredCallFlushFirst(a, rwr, w) ==
    LET r == Flush(rwr, w)
    IN  [w |-> [r.w EXCEPT !.header = HeaderDel(r.w.header, a.notifyHeader)],
         rwr |-> r.rwr]

\* The deferred function of ServeHTTP: Header().Del(notifyHeader), Flush().
DeferredCall(a, rwr, w) ==
    Flush(rwr, [w EXCEPT !.header = HeaderDel(w.header, a.notifyHeader)])

(* ---------------------- the notification request ----------------------- *)

\* url.Parse, as http.NewRequest and http.Post apply it to the URLs in use.
ValidURL(u) == u = "http://notify"

(* ------------------------------- state --------------------------------- *)

VARIABLES
    variant,      \* "post": src/header2post.go; "forward": forward-headers variant
    hostConfig,       \* the Config handed to New
    notify,            \* the notify handler New returned, or NilHandler
    newErr,       \* the error New returned
    pc,           \* position: new, failed, ready, next, returned, post,
                  \*           readBody, deferred, done
    panicking,    \* the downstream handler panicked
    rw,           \* the real response sink
    respWriter,   \* the wrappedResponseWriter of the request
    reqHeader,    \* req.Header
    value,        \* the marker value ServeHTTP read
    myreq,        \* the notification request handed to post
    resp,         \* the notification response being inspected, with what
                  \* became of reading its body: unread, ok, error
    posts,        \* requests handed to post, in order
    logs,         \* log lines, in order
    written,      \* chunks the downstream handler passed to Write, in order
    lastWrite,    \* what the last Write call returned
    lastCode,     \* code of the last WriteHeader call of the handler, 0 if none
    atExit        \* response headers when the downstream handler exited

vars ==
    << variant, hostConfig, notify, newErr, pc, panicking, rw, respWriter, reqHeader,
       value, myreq, resp, posts, logs, written, lastWrite,
       lastCode, atExit >>

NoRequest == [none |-> TRUE]

NoResponse == [none |-> TRUE]

Init ==
    /\ variant \in {"post", "forward"}
    /\ hostConfig \in [NotifyHeader : NotifyHeaderNames,
                   NotifyUrl : NotifyUrls,
                   ForwardHeaders : IF variant = "forward"
                                    THEN ForwardHeaderLists ELSE {<<>>}]
    /\ notify = NilHandler
    /\ newErr = Nil
    /\ pc = "new"
    /\ panicking = FALSE
    /\ rw = NewSink
    /\ respWriter = NewResponseWriter
    /\ reqHeader = EmptyHeader
    /\ value = <<>>
    /\ myreq = NoRequest
    /\ resp = NoResponse
    /\ posts = <<>>
    /\ logs = <<>>
    /\ written = <<>>
    /\ lastWrite = [n |-> 0, err |-> Nil]
    /\ lastCode = 0
    /\ atExit = EmptyHeader

\* Forward-headers variant: the POST request with Content-Type set, then
\* every configured name whose request value is non-empty once trimmed.
RECURSIVE SetForwardHeaders(_, _, _)
SetForwardHeaders(h, names, reqHdr) ==
    IF names = <<>> THEN h
    ELSE LET headerValu == TrimSpace(HeaderGet(reqHdr, names[1]))
         IN  SetForwardHeaders(
                 IF headerValu = <<>> THEN h
                 ELSE HeaderSet(h, names[1], headerValu),
                 Tail(names), reqHdr)

\* A request whose forwarded values are read from the response headers.
BuildRequestFromResponse(a, reqHdr, data) ==
    [method |-> "POST", url |-> a.notifyUrl, body |-> data,
     header |-> SetForwardHeaders(
                    HeaderSet(EmptyHeader, "Content-Type",
                              <<"application/json">>),
                    a.forwardHeaders, rw.header)]

BuildRequest(a, reqHdr, data) ==
    [method |-> "POST", url |-> a.notifyUrl, body |-> data,
     header |-> SetForwardHeaders(
                    HeaderSet(EmptyHeader, "Content-Type",
                              <<"application/json">>),
                    a.forwardHeaders, reqHdr)]

\* First variant: http.Post(notifyUrl, "application/json", body).
BuildPost(a, data) ==
    [method |-> "POST", url |-> a.notifyUrl, body |-> data,
     header |-> HeaderSet(EmptyHeader, "Content-Type",
                          <<"application/json">>)]

serveVars ==
    << rw, respWriter, reqHeader, value, myreq, resp, posts, logs, written, lastWrite, lastCode, atExit, panicking >>

(* ---------------------------- construction ----------------------------- *)

\* The host calls New with the configuration.
Construct ==
    /\ pc = "new"
    /\ LET r == New(hostConfig)
       IN  /\ notify' = r.handler
           /\ newErr' = r.err
           /\ pc' = IF r.err = Nil THEN "ready" ELSE "failed"
    /\ UNCHANGED << variant, hostConfig >>
    /\ UNCHANGED serveVars

(* ----------------------------- ServeHTTP -------------------------------- *)

\* ServeHTTP starts: the wrapper is created, the deferred function is
\* registered and the downstream handler is called.
ServeBegin ==
    /\ pc = "ready"
    /\ respWriter' = NewResponseWriter
    /\ pc' = "next"
    /\ UNCHANGED << variant, hostConfig, notify, newErr, panicking, rw, reqHeader,
                    value, myreq, resp, posts, logs, written,
                    lastWrite, lastCode, atExit >>

(* ----------------------- the downstream handler ------------------------ *)
\* While it runs, the downstream handler calls the wrapper's methods and
\* touches the request's headers, in any order and any number of times.

nextVars == << variant, hostConfig, notify, newErr, pc, panicking, value,
               myreq, resp, posts, logs, atExit >>

ValuesFor(k) ==
    IF CanonicalMIMEHeaderKey(k) = "X-Notify" THEN MarkerValues
    ELSE OtherValues

\* w.Header().Add(k, v): Header() is the sink's own header collection.
NextHeaderAdd ==
    /\ pc = "next"
    /\ \E k \in RespNames : \E v \in ValuesFor(k) :
          /\ Len(rw.header[CanonicalMIMEHeaderKey(k)]) < MaxHeaderVals
          /\ rw' = [rw EXCEPT !.header = HeaderAdd(rw.header, k, v)]
    /\ UNCHANGED nextVars
    /\ UNCHANGED << respWriter, reqHeader, written, lastWrite, lastCode >>

\* w.Header().Set(k, v).
NextHeaderSet ==
    /\ pc = "next"
    /\ \E k \in RespNames : \E v \in ValuesFor(k) :
          rw' = [rw EXCEPT !.header = HeaderSet(rw.header, k, v)]
    /\ UNCHANGED nextVars
    /\ UNCHANGED << respWriter, reqHeader, written, lastWrite, lastCode >>

\* w.Header().Del(k).
NextHeaderDel ==
    /\ pc = "next"
    /\ \E k \in RespNames :
          rw' = [rw EXCEPT !.header = HeaderDel(rw.header, k)]
    /\ UNCHANGED nextVars
    /\ UNCHANGED << respWriter, reqHeader, written, lastWrite, lastCode >>

\* w.WriteHeader(code).
NextWriteHeader ==
    /\ pc = "next"
    /\ \E code \in Codes :
          /\ respWriter' = WrapperWriteHeader(respWriter, code)
          /\ lastCode' = code
    /\ UNCHANGED nextVars
    /\ UNCHANGED << rw, reqHeader, written, lastWrite >>

\* A Write that streams the chunk to the real sink as well.
NextWriteThrough ==
    /\ pc = "next"
    /\ Len(written) < MaxWrites
    /\ \E b \in Chunks :
          LET r == WrapperWrite(respWriter, b)
          IN  /\ respWriter' = r.rwr
              /\ lastWrite' = [n |-> r.n, err |-> r.err]
              /\ written' = Append(written, b)
              /\ rw' = SinkWrite(rw, b)
    /\ UNCHANGED nextVars
    /\ UNCHANGED << reqHeader, lastCode >>

\* w.Write(b).
NextWrite ==
    /\ pc = "next"
    /\ Len(written) < MaxWrites
    /\ \E b \in Chunks :
          LET r == WrapperWrite(respWriter, b)
          IN  /\ respWriter' = r.rwr
              /\ lastWrite' = [n |-> r.n, err |-> r.err]
              /\ written' = Append(written, b)
    /\ UNCHANGED nextVars
    /\ UNCHANGED << rw, reqHeader, lastCode >>

\* r.Header.Set(k, v) on a name the middleware is configured to forward
\* (no other request header is ever read).
NextRequestHeaderSet ==
    /\ pc = "next"
    /\ \E i \in 1..Len(notify.forwardHeaders) : \E v \in ReqValues :
          reqHeader' = HeaderSet(reqHeader, notify.forwardHeaders[i], v)
    /\ UNCHANGED nextVars
    /\ UNCHANGED << rw, respWriter, written, lastWrite, lastCode >>

\* The downstream handler returns.
NextReturn ==
    /\ pc = "next"
    /\ pc' = "returned"
    /\ atExit' = rw.header
    /\ UNCHANGED << variant, hostConfig, notify, newErr, panicking, rw,
                    respWriter, reqHeader, value, myreq, resp, posts, logs,
                    written, lastWrite, lastCode >>

\* A ServeHTTP that flushes in its last statement instead of a deferred
\* function: a panic of the downstream handler leaves it without flushing.
NextPanicNoDefer ==
    /\ pc = "next"
    /\ pc' = "done"
    /\ panicking' = TRUE
    /\ atExit' = rw.header
    /\ UNCHANGED << variant, hostConfig, notify, newErr, rw, respWriter,
                    reqHeader, value, myreq, resp, posts, logs,
                    written, lastWrite, lastCode >>

\* The downstream handler panics: ServeHTTP unwinds and its deferred
\* function runs.
NextPanic ==
    /\ pc = "next"
    /\ pc' = "deferred"
    /\ panicking' = TRUE
    /\ atExit' = rw.header
    /\ UNCHANGED << variant, hostConfig, notify, newErr, rw, respWriter,
                    reqHeader, value, myreq, resp, posts, logs, written, lastWrite, lastCode >>

(* ------------------- ServeHTTP after the handler ----------------------- *)

afterVars == << variant, hostConfig, notify, newErr, panicking, rw,
                respWriter, reqHeader, written, lastWrite,
                lastCode, atExit >>

\* value := respWriter.Header().Get(notifyHeader); value == "": return.
MarkerEmpty ==
    /\ pc = "returned"
    /\ HeaderGet(rw.header, notify.notifyHeader) = <<>>
    /\ value' = <<>>
    /\ pc' = "deferred"
    /\ UNCHANGED afterVars
    /\ UNCHANGED << myreq, resp, posts, logs >>

\* base64 decoding of the value fails: the error is logged, return.
DecodeError ==
    /\ pc = "returned"
    /\ LET v == HeaderGet(rw.header, notify.notifyHeader)
       IN  /\ v # <<>>
           /\ DecodeString(v).err
           /\ value' = v
    /\ logs' = Append(logs, <<"base64 decode error:">>)
    /\ pc' = "deferred"
    /\ UNCHANGED afterVars
    /\ UNCHANGED << myreq, resp, posts >>

\* Forward-headers variant: http.NewRequest rejects the URL: logged, return.
CreateRequestError ==
    /\ pc = "returned"
    /\ variant = "forward"
    /\ LET v == HeaderGet(rw.header, notify.notifyHeader)
       IN  /\ v # <<>>
           /\ ~DecodeString(v).err
           /\ value' = v
    /\ ~ValidURL(notify.notifyUrl)
    /\ logs' = Append(logs, <<"create http request error:">>)
    /\ pc' = "deferred"
    /\ UNCHANGED afterVars
    /\ UNCHANGED << myreq, resp, posts >>

\* The value decodes: the notification request is made ready and post is
\* called with it.
CallPost ==
    /\ pc = "returned"
    /\ LET v == HeaderGet(rw.header, notify.notifyHeader)
           d == DecodeString(v)
       IN  /\ v # <<>>
           /\ ~d.err
           /\ value' = v
           /\ myreq' = IF variant = "forward"
                       THEN BuildRequest(notify, reqHeader, d.data)
                       ELSE BuildPost(notify, d.data)
    /\ variant = "forward" => ValidURL(notify.notifyUrl)
    /\ posts' = Append(posts, myreq')
    /\ pc' = "post"
    /\ UNCHANGED afterVars
    /\ UNCHANGED << resp, logs >>

\* A post error that is surfaced to the client as a 500.
PostErrorSurfaced ==
    /\ pc = "post"
    /\ logs' = Append(logs, <<"post error:">>)
    /\ respWriter' = WrapperWriteHeader(respWriter, StatusInternalServerError)
    /\ pc' = "deferred"
    /\ UNCHANGED << variant, hostConfig, notify, newErr, panicking, rw,
                    reqHeader, written, lastWrite, lastCode, atExit >>
    /\ UNCHANGED << value, myreq, resp, posts >>

\* A post error after which the request is posted again.
PostErrorRetry ==
    /\ pc = "post"
    /\ logs' = Append(logs, <<"post error:">>)
    /\ posts' = Append(posts, myreq)
    /\ pc' = "post"
    /\ UNCHANGED afterVars
    /\ UNCHANGED << value, myreq, resp >>

\* post returns an error (the transport fails, or http.Post rejects the
\* URL): logged, return.
PostError ==
    /\ pc = "post"
    /\ logs' = Append(logs, <<"post error:">>)
    /\ pc' = "deferred"
    /\ UNCHANGED afterVars
    /\ UNCHANGED << value, myreq, resp, posts >>

\* A status check that takes 200 for success as well as 202.
PostAcceptedAnySuccess ==
    /\ pc = "post"
    /\ ValidURL(notify.notifyUrl)
    /\ \E c \in {StatusOK, StatusAccepted} :
          resp' = [StatusCode |-> c, Body |-> <<>>, read |-> "unread"]
    /\ logs' = Append(logs, <<"notify success">>)
    /\ pc' = "deferred"
    /\ UNCHANGED afterVars
    /\ UNCHANGED << value, myreq, posts >>

\* post returns a response with status 202: success is logged.
PostAccepted ==
    /\ pc = "post"
    /\ ValidURL(notify.notifyUrl)
    /\ resp' = [StatusCode |-> StatusAccepted, Body |-> <<>>,
                read |-> "unread"]
    /\ logs' = Append(logs, <<"notify success">>)
    /\ pc' = "deferred"
    /\ UNCHANGED afterVars
    /\ UNCHANGED << value, myreq, posts >>

\* post returns a response with another status: its body is to be read.
PostRejected ==
    /\ pc = "post"
    /\ ValidURL(notify.notifyUrl)
    /\ \E c \in RespCodes \ {StatusAccepted} :
          resp' = [StatusCode |-> c, Body |-> RespBody, read |-> "unread"]
    /\ pc' = "readBody"
    /\ UNCHANGED afterVars
    /\ UNCHANGED << value, myreq, posts, logs >>

\* readBody returns the body: the failure is logged with it.
ReadBodyOk ==
    /\ pc = "readBody"
    /\ resp' = [resp EXCEPT !.read = "ok"]
    /\ logs' = Append(logs, <<"notify failed: ", resp.Body>>)
    /\ pc' = "deferred"
    /\ UNCHANGED afterVars
    /\ UNCHANGED << value, myreq, posts >>

\* readBody returns an error: logged, return.
ReadBodyError ==
    /\ pc = "readBody"
    /\ resp' = [resp EXCEPT !.read = "error"]
    /\ logs' = Append(logs, <<"read resp body error:">>)
    /\ pc' = "deferred"
    /\ UNCHANGED afterVars
    /\ UNCHANGED << value, myreq, posts >>

\* ServeHTTP returns or unwinds: the deferred function removes the marker
\* header and flushes the wrapper.
Deferred ==
    /\ pc = "deferred"
    /\ LET r == DeferredCall(notify, respWriter, rw)
       IN  /\ rw' = r.w
           /\ respWriter' = r.rwr
    /\ pc' = "done"
    /\ UNCHANGED << variant, hostConfig, notify, newErr, panicking,
                    reqHeader, value, myreq, resp, posts, logs, written,
                    lastWrite, lastCode, atExit >>

Next ==
    \/ Construct
    \/ ServeBegin
    \/ NextHeaderAdd
    \/ NextHeaderSet
    \/ NextHeaderDel
    \/ NextWriteHeader
    \/ NextWrite
    \/ NextRequestHeaderSet
    \/ NextReturn
    \/ NextPanic
    \/ MarkerEmpty
    \/ DecodeError
    \/ CreateRequestError
    \/ CallPost
    \/ PostError
    \/ PostAccepted
    \/ PostRejected
    \/ ReadBodyOk
    \/ ReadBodyError
    \/ Deferred

Spec == Init /\ [][Next]_vars

(* ============================== claims ================================= *)

\* The canonical form of the configured marker header name.
MarkerKey == "X-Notify"

\* The first value the response headers held for the marker when the
\* downstream handler exited, <<>> when they held none.
MarkerAtExit ==
    IF atExit[MarkerKey] = <<>> THEN <<>> ELSE atExit[MarkerKey][1]

\* Number of Flush calls so far: Flush, and nothing else, calls WriteHeader
\* on the real sink, once per call.
FlushCount ==
    Cardinality({i \in DOMAIN rw.calls : rw.calls[i][1] = "WriteHeader"})

\* The downstream handler has exited and ServeHTTP has not yet finished.
Finishing == pc \in {"returned", "post", "readBody", "deferred"}

\* C1: on every exit path of ServeHTTP the status code is written to the
\* real sink, and the headers the sink holds at that moment do not contain
\* the configured marker header.
C1_MarkerNeverDelivered ==
    /\ rw.wroteHeader => rw.sent[MarkerKey] = <<>>
    /\ pc = "done" => rw.wroteHeader

\* C1 witness: the handler left the marker set, a notification was
\* attempted, and the response has been delivered.
C1_Witness ==
    /\ pc = "done"
    /\ atExit[MarkerKey] # <<>>
    /\ posts # <<>>
    /\ rw.wroteHeader

\* C2: in every execution of ServeHTTP Flush is invoked exactly once: not
\* before ServeHTTP ends, once when it has ended, whichever path it took,
\* and no path stops short of its end.
C2_FlushExactlyOnce ==
    /\ pc = "done" => FlushCount = 1
    /\ pc # "done" => FlushCount = 0
    /\ Finishing => ENABLED Next

\* C2 witness: the downstream handler panicked after writing and the
\* response was flushed once all the same.
C2_Witness ==
    /\ pc = "done"
    /\ panicking
    /\ written # <<>>
    /\ FlushCount = 1

RECURSIVE Concat(_)
Concat(chunks) ==
    IF chunks = <<>> THEN <<>> ELSE chunks[1] \o Concat(Tail(chunks))

\* What the downstream handler wrote: the code of its last WriteHeader call
\* (200 when it made none), the chunks of its Write calls in order, and the
\* response headers as it left them.
HandlerCode == IF lastCode = 0 THEN StatusOK ELSE lastCode

HandlerBody == Concat(written)

HandlerHeaders == atExit

HandlerHeadersLessMarker == [atExit EXCEPT ![MarkerKey] = <<>>]

\* Standard base64 text, stated on the text itself: once carriage returns
\* and line feeds are set aside, a multiple of four characters, all of the
\* alphabet, except that the last one or the last two may be "=".
IsStdBase64(s) ==
    LET t == SelectSeq(s, LAMBDA c : c \notin {"\r", "\n"})
        n == Len(t)
    IN  /\ n % 4 = 0
        /\ \A i \in 1..n :
              \/ t[i] \in AlphabetSet
              \/ /\ t[i] = "="
                 /\ i = n \/ (i = n - 1 /\ t[n] = "=")

\* C3: the outcome of the notification does not reach the client.  Whenever
\* a notification was attempted, whatever its outcome (202, another status,
\* transport error, body read error), the status, headers and body
\* delivered to the real sink are determined by the handler's writes alone:
\* they equal what the handler wrote, minus the marker header.  Two runs
\* that differ only in the outcome therefore deliver the same response.
C3_NotificationOutcomeInvisible ==
    (pc = "done" /\ posts # <<>>) =>
        /\ rw.code = HandlerCode
        /\ rw.body = HandlerBody
        /\ rw.sent = HandlerHeadersLessMarker

\* C3 witness: the endpoint answered with a failure whose body could not be
\* read, and the handler's 400 response with a body has been delivered.
C3_Witness ==
    /\ pc = "done"
    /\ posts # <<>>
    /\ logs = << <<"read resp body error:">> >>
    /\ lastCode = StatusBadRequest
    /\ written # <<>>
    /\ atExit["X-Forward-A"] # <<>>

\* C4 as stated: when the handler leaves the marker header unset or empty,
\* no notification is sent and the status, headers and body delivered
\* equal exactly what the handler wrote (status 200 if it set none).
C4_Original ==
    (pc = "done" /\ MarkerAtExit = <<>>) =>
        /\ posts = <<>>
        /\ rw.code = HandlerCode
        /\ rw.body = HandlerBody
        /\ rw.sent = HandlerHeaders

\* C4 amended: when the handler leaves the marker header unset or with an
\* empty first value, no notification is sent, the status and body
\* delivered equal exactly what the handler wrote (status 200 if it set
\* none), and the headers delivered are the handler's with the marker
\* header removed.
C4_NoMarkerPassThrough ==
    (pc = "done" /\ MarkerAtExit = <<>>) =>
        /\ posts = <<>>
        /\ rw.code = HandlerCode
        /\ rw.body = HandlerBody
        /\ rw.sent = HandlerHeadersLessMarker

\* C4 witness: the handler set the marker to the empty string, wrote a body
\* and returned without ever calling WriteHeader; the response is delivered.
C4_Witness ==
    /\ pc = "done"
    /\ ~panicking
    /\ atExit[MarkerKey] = << <<>> >>
    /\ lastCode = 0
    /\ written # <<>>
    /\ rw.code = StatusOK

\* C5: when the handler returns with a marker value that is non-empty and
\* is not standard base64, no notification is sent, exactly the decode
\* error is logged, and the client receives the handler's status and body
\* unchanged, with the handler's headers less the marker.
C5_InvalidBase64Skipped ==
    (pc = "done" /\ ~panicking /\ MarkerAtExit # <<>>
        /\ ~IsStdBase64(MarkerAtExit)) =>
        /\ posts = <<>>
        /\ logs = << <<"base64 decode error:">> >>
        /\ rw.code = HandlerCode
        /\ rw.body = HandlerBody
        /\ rw.sent = HandlerHeadersLessMarker

\* C5 witness: the handler returned with an undecodable marker and a body,
\* and the response has been delivered.
C5_Witness ==
    /\ pc = "done"
    /\ ~panicking
    /\ MarkerAtExit # <<>>
    /\ ~IsStdBase64(MarkerAtExit)
    /\ written # <<>>
    /\ rw.wroteHeader

\* C6: New returns the error "notifyheader cannot be empty" and no handler
\* when the header name is empty (the URL empty or not), the error
\* "notifyurl cannot be empty" and no handler when only the URL is empty,
\* and a handler holding the configuration, with no error, otherwise.
C6_NewValidates ==
    pc # "new" =>
        /\ hostConfig.NotifyHeader = "" =>
              /\ newErr = "notifyheader cannot be empty"
              /\ notify = NilHandler
        /\ (hostConfig.NotifyHeader # "" /\ hostConfig.NotifyUrl = "") =>
              /\ newErr = "notifyurl cannot be empty"
              /\ notify = NilHandler
        /\ (hostConfig.NotifyHeader # "" /\ hostConfig.NotifyUrl # "") =>
              /\ newErr = Nil
              /\ notify # NilHandler
              /\ notify.notifyHeader = hostConfig.NotifyHeader
              /\ notify.notifyUrl = hostConfig.NotifyUrl
              /\ notify.forwardHeaders = hostConfig.ForwardHeaders

\* C6 witness: New has refused a configuration with both fields empty.
C6_Witness ==
    /\ pc = "failed"
    /\ hostConfig.NotifyHeader = ""
    /\ hostConfig.NotifyUrl = ""
    /\ newErr = "notifyheader cannot be empty"

\* The first value the request holds under a name, <<>> when it holds none.
RequestValue(h) == IF reqHeader[h] = <<>> THEN <<>> ELSE reqHeader[h][1]

C8_AtMostOnePost ==
    /\ Len(posts) <= 1
    /\ posts # <<>> =>
          /\ pc \in {"post", "readBody", "deferred", "done"}
          /\ ~panicking
          /\ MarkerAtExit # <<>>
          /\ IsStdBase64(MarkerAtExit)

\* C8 witness: the post failed in the transport, ServeHTTP has ended and
\* one request was posted.
C8_Witness ==
    /\ pc = "done"
    /\ Len(posts) = 1
    /\ logs = << <<"post error:">> >>

\* C9: until ServeHTTP's final Flush, that is while the downstream handler
\* runs and while the marker is read, decoded and notified, nothing has
\* been written to the real sink: no status code and no body byte.
C9_NothingSentBeforeFlush ==
    pc # "done" =>
        /\ rw.calls = <<>>
        /\ ~rw.wroteHeader
        /\ rw.body = <<>>

\* C9 witness: the handler wrote a status and a body and returned, the
\* notification endpoint has answered, and the sink is still untouched.
C9_Witness ==
    /\ pc = "readBody"
    /\ written # <<>>
    /\ lastCode # 0
    /\ rw.calls = <<>>

\* C10: Flush sends the real sink first the recorded status code (that of
\* the most recent WriteHeader call, 200 if there was none), then the
\* concatenation of the chunks passed to Write in call order; each Write
\* returns the length of its chunk and no error.
C10_FlushStatusThenBody ==
    /\ pc = "done" =>
          /\ rw.calls =
                << <<"WriteHeader", HandlerCode>> >> \o
                (IF HandlerBody = <<>> THEN <<>>
                 ELSE << <<"Write", HandlerBody>> >>)
          /\ rw.code = HandlerCode
          /\ rw.body = HandlerBody
    /\ written # <<>> =>
          lastWrite = [n |-> Len(written[Len(written)]), err |-> Nil]

\* C10 witness: two different chunks were written and WriteHeader(400) was
\* the last status call; the response has been flushed.
C10_Witness ==
    /\ pc = "done"
    /\ Len(written) = 2
    /\ written[1] # written[2]
    /\ lastCode = StatusBadRequest
    /\ rw.body = written[1] \o written[2]

(* ================= package header2notify (header2notify.go) ============ *)
\* The earlier middleware: the downstream handler writes into an
\* injectResponseWriter that owns its header collection, and ServeHTTP
\* copies it to the real sink.  The state variables are those above;
\* respWriter holds the injectResponseWriter.

\* newInjectWriter: an empty header collection, status 200, no data.
NewInjectWriter == [header |-> EmptyHeader, code |-> StatusOK, data |-> <<>>]

\* injectResponseWriter.Write: the chunk replaces the data held so far;
\* (len(b), nil) is returned.
InjectWrite(inject, b) ==
    [inject |-> [inject EXCEPT !.data = b], n |-> Len(b), err |-> Nil]

\* injectResponseWriter.WriteHeader: the code is recorded.
InjectWriteHeader(inject, statusCode) == [inject EXCEPT !.code = statusCode]

\* injectResponseWriter.copy: every captured header goes to the sink's
\* headers (Set for the first value, Add for the others), then WriteHeader
\* with the captured code, then one Write of the captured data.  The sink
\* of this model accepts every Write, so the http.Error branch is not taken.
InjectCopy(inject, w) ==
    LET h == [k \in DOMAIN w.header |->
                 IF inject.header[k] # <<>> THEN inject.header[k]
                 ELSE w.header[k]]
        w1 == SinkWriteHeader([w EXCEPT !.header = h], inject.code)
    IN  SinkWrite(w1, inject.data)

InitNotify ==
    /\ variant = "inject"
    /\ hostConfig \in [NotifyHeader : NotifyHeaderNames,
                       NotifyUrl : NotifyUrls,
                       ForwardHeaders : {<<>>}]
    /\ notify = NilHandler
    /\ newErr = Nil
    /\ pc = "new"
    /\ panicking = FALSE
    /\ rw = NewSink
    /\ respWriter = NewInjectWriter
    /\ reqHeader = EmptyHeader
    /\ value = <<>>
    /\ myreq = NoRequest
    /\ resp = NoResponse
    /\ posts = <<>>
    /\ logs = <<>>
    /\ written = <<>>
    /\ lastWrite = [n |-> 0, err |-> Nil]
    /\ lastCode = 0
    /\ atExit = EmptyHeader

\* ServeHTTP starts: the inject writer is created and the downstream
\* handler is called with it.
InjectBegin ==
    /\ pc = "ready"
    /\ respWriter' = NewInjectWriter
    /\ pc' = "next"
    /\ UNCHANGED << variant, hostConfig, notify, newErr, panicking, rw,
                    reqHeader, value, myreq, resp, posts, logs, written,
                    lastWrite, lastCode, atExit >>

\* w.Header().Add(k, v) on the inject writer's own header collection.
InjectNextHeaderAdd ==
    /\ pc = "next"
    /\ \E k \in RespNames : \E v \in ValuesFor(k) :
          /\ Len(respWriter.header[CanonicalMIMEHeaderKey(k)]) < MaxHeaderVals
          /\ respWriter' =
                [respWriter EXCEPT !.header = HeaderAdd(respWriter.header, k, v)]
    /\ UNCHANGED nextVars
    /\ UNCHANGED << rw, reqHeader, written, lastWrite, lastCode >>

\* w.Header().Set(k, v).
InjectNextHeaderSet ==
    /\ pc = "next"
    /\ \E k \in RespNames : \E v \in ValuesFor(k) :
          respWriter' =
              [respWriter EXCEPT !.header = HeaderSet(respWriter.header, k, v)]
    /\ UNCHANGED nextVars
    /\ UNCHANGED << rw, reqHeader, written, lastWrite, lastCode >>

\* w.Header().Del(k).
InjectNextHeaderDel ==
    /\ pc = "next"
    /\ \E k \in RespNames :
          respWriter' =
              [respWriter EXCEPT !.header = HeaderDel(respWriter.header, k)]
    /\ UNCHANGED nextVars
    /\ UNCHANGED << rw, reqHeader, written, lastWrite, lastCode >>

\* w.WriteHeader(code).
InjectNextWriteHeader ==
    /\ pc = "next"
    /\ \E code \in Codes :
          /\ respWriter' = InjectWriteHeader(respWriter, code)
          /\ lastCode' = code
    /\ UNCHANGED nextVars
    /\ UNCHANGED << rw, reqHeader, written, lastWrite >>

\* w.Write(b).
InjectNextWrite ==
    /\ pc = "next"
    /\ Len(written) < MaxWrites
    /\ \E b \in Chunks :
          LET r == InjectWrite(respWriter, b)
          IN  /\ respWriter' = r.inject
              /\ lastWrite' = [n |-> r.n, err |-> r.err]
              /\ written' = Append(written, b)
    /\ UNCHANGED nextVars
    /\ UNCHANGED << rw, reqHeader, lastCode >>

\* The downstream handler returns.
InjectNextReturn ==
    /\ pc = "next"
    /\ pc' = "returned"
    /\ atExit' = respWriter.header
    /\ UNCHANGED << variant, hostConfig, notify, newErr, panicking, rw,
                    respWriter, reqHeader, value, myreq, resp, posts, logs,
                    written, lastWrite, lastCode >>

\* The downstream handler panics: ServeHTTP has no deferred function and
\* unwinds at once.
InjectNextPanic ==
    /\ pc = "next"
    /\ pc' = "done"
    /\ panicking' = TRUE
    /\ atExit' = respWriter.header
    /\ UNCHANGED << variant, hostConfig, notify, newErr, rw, respWriter,
                    reqHeader, value, myreq, resp, posts, logs, written,
                    lastWrite, lastCode >>

injectAfterVars == << variant, hostConfig, notify, newErr, panicking,
                      reqHeader, written, lastWrite, lastCode, atExit >>

\* value == "": the marker is deleted from the captured headers, the
\* captured response is copied to the real sink, return.
InjectMarkerEmpty ==
    /\ pc = "returned"
    /\ HeaderGet(respWriter.header, notify.notifyHeader) = <<>>
    /\ value' = <<>>
    /\ LET inject == [respWriter EXCEPT
                         !.header = HeaderDel(respWriter.header,
                                              notify.notifyHeader)]
       IN  /\ respWriter' = inject
           /\ rw' = InjectCopy(inject, rw)
    /\ pc' = "done"
    /\ UNCHANGED injectAfterVars
    /\ UNCHANGED << myreq, resp, posts, logs >>

\* base64 decoding of the value fails: the error is logged, return.
InjectDecodeError ==
    /\ pc = "returned"
    /\ LET v == HeaderGet(respWriter.header, notify.notifyHeader)
       IN  /\ v # <<>>
           /\ DecodeString(v).err
           /\ value' = v
    /\ logs' = Append(logs, <<"base64 decode error:">>)
    /\ pc' = "done"
    /\ UNCHANGED injectAfterVars
    /\ UNCHANGED << rw, respWriter, myreq, resp, posts >>

\* The value decodes: http.Post is called with the decoded bytes.
InjectCallPost ==
    /\ pc = "returned"
    /\ LET v == HeaderGet(respWriter.header, notify.notifyHeader)
           d == DecodeString(v)
       IN  /\ v # <<>>
           /\ ~d.err
           /\ value' = v
           /\ myreq' = BuildPost(notify, d.data)
    /\ posts' = Append(posts, myreq')
    /\ pc' = "post"
    /\ UNCHANGED injectAfterVars
    /\ UNCHANGED << rw, respWriter, resp, logs >>

\* http.Post returns an error: logged, return.
InjectPostError ==
    /\ pc = "post"
    /\ logs' = Append(logs, <<"post error:">>)
    /\ pc' = "done"
    /\ UNCHANGED injectAfterVars
    /\ UNCHANGED << rw, respWriter, value, myreq, resp, posts >>

\* http.Post returns a response with status 202: success is logged, return.
InjectPostAccepted ==
    /\ pc = "post"
    /\ ValidURL(notify.notifyUrl)
    /\ resp' = [StatusCode |-> StatusAccepted, Body |-> <<>>,
                read |-> "unread"]
    /\ logs' = Append(logs, <<"notify success">>)
    /\ pc' = "done"
    /\ UNCHANGED injectAfterVars
    /\ UNCHANGED << rw, respWriter, value, myreq, posts >>

\* http.Post returns a response with another status: its body is to be read.
InjectPostRejected ==
    /\ pc = "post"
    /\ ValidURL(notify.notifyUrl)
    /\ \E c \in RespCodes \ {StatusAccepted} :
          resp' = [StatusCode |-> c, Body |-> RespBody, read |-> "unread"]
    /\ pc' = "readBody"
    /\ UNCHANGED injectAfterVars
    /\ UNCHANGED << rw, respWriter, value, myreq, posts, logs >>

\* io.ReadAll returns the body: the failure is logged with it, return.
InjectReadBodyOk ==
    /\ pc = "readBody"
    /\ resp' = [resp EXCEPT !.read = "ok"]
    /\ logs' = Append(logs, <<"notify failed: ", resp.Body>>)
    /\ pc' = "done"
    /\ UNCHANGED injectAfterVars
    /\ UNCHANGED << rw, respWriter, value, myreq, posts >>

\* io.ReadAll returns an error: logged, return.
InjectReadBodyError ==
    /\ pc = "readBody"
    /\ resp' = [resp EXCEPT !.read = "error"]
    /\ logs' = Append(logs, <<"read resp body error:">>)
    /\ pc' = "done"
    /\ UNCHANGED injectAfterVars
    /\ UNCHANGED << rw, respWriter, value, myreq, posts >>

NextNotify ==
    \/ Construct
    \/ InjectBegin
    \/ InjectNextHeaderAdd
    \/ InjectNextHeaderSet
    \/ InjectNextHeaderDel
    \/ InjectNextWriteHeader
    \/ InjectNextWrite
    \/ InjectNextReturn
    \/ InjectNextPanic
    \/ InjectMarkerEmpty
    \/ InjectDecodeError
    \/ InjectCallPost
    \/ InjectPostError
    \/ InjectPostAccepted
    \/ InjectPostRejected
    \/ InjectReadBodyOk
    \/ InjectReadBodyError

SpecNotify == InitNotify /\ [][NextNotify]_vars

\* C11: in header2notify's ServeHTTP, on every return path the captured
\* response is delivered to the real response writer exactly once: one
\* WriteHeader with the captured status while the sink holds the captured
\* headers less the marker, and the captured data as the body.
C11_DeliveredOnEveryReturn ==
    (pc = "done" /\ ~panicking) =>
        /\ FlushCount = 1
        /\ rw.code = respWriter.code
        /\ rw.sent = [atExit EXCEPT ![MarkerKey] = <<>>]
        /\ rw.body = respWriter.data

\* C11, the one path on which the code delivers: the marker is absent or
\* empty when the downstream handler returns.
C11_DeliveredWhenMarkerEmpty ==
    (pc = "done" /\ ~panicking /\ MarkerAtExit = <<>>) =>
        /\ FlushCount = 1
        /\ rw.code = respWriter.code
        /\ rw.sent = [atExit EXCEPT ![MarkerKey] = <<>>]
        /\ rw.body = respWriter.data

\* C12: when post returned a response, exactly one log line tells the
\* outcome once ServeHTTP is past it: the success message if and only if
\* the status is exactly 202 (the body is then not read); otherwise the
\* body is read and the failure message with that body is logged, unless
\* the read failed, and then only the read error is logged.
C12_OneOutcomeLogLine ==
    (pc \in {"deferred", "done"} /\ resp # NoResponse) =>
        /\ Len(logs) = 1
        /\ resp.StatusCode = StatusAccepted <=>
              logs[1] = <<"notify success">>
        /\ resp.StatusCode = StatusAccepted => resp.read = "unread"
        /\ resp.StatusCode # StatusAccepted =>
              /\ resp.read \in {"ok", "error"}
              /\ resp.read = "ok" =>
                    logs[1] = <<"notify failed: ", resp.Body>>
              /\ resp.read = "error" =>
                    logs[1] = <<"read resp body error:">>

\* C12 witness: the endpoint answered 200, reading the body failed, and
\* the read error is the one line logged.
C12_Witness ==
    /\ pc = "done"
    /\ resp # NoResponse
    /\ resp.StatusCode = StatusOK
    /\ resp.read = "error"
    /\ logs = << <<"read resp body error:">> >>

====
